---- MODULE Spec2Model ----
(***************************************************************************)
(* A model of the derived-data core of databento-es-options:               *)
(*   - the post-ingest diagnostics runner                                  *)
(*       scripts/diagnostics/run_post_ingest_diagnostics.py                *)
(*   - the roll detector                                                   *)
(*       scripts/database/populate_instrument_metadata.py                  *)
(*   - the calendar synchronizer  src/utils/calendar.py                    *)
(*   - the daily-bar loader  pipelines/products/es_continuous_daily_mdp3.py*)
(*   - the health report  scripts/diagnostics/generate_health_report.py    *)
(*   - the symbol parser and the IMM date  src/utils/instrument_metadata.py*)
(*   - the series identifier  src/utils/continuous_transform.py            *)
(*                                                                         *)
(* The DuckDB database is the state: one variable per table.  A command    *)
(* (one process invocation) is one action; what it printed or returned is  *)
(* kept in `out` until the next command runs.                              *)
(*                                                                         *)
(* Dates are days of January 2025 (2 stands for 2025-01-02).  A contract   *)
(* series identifier is the sequence of its "_"-separated tokens:          *)
(* "ES_FRONT_CALENDAR_2D" is <<"ES", "FRONT", "CALENDAR", "2D">>.          *)
(***************************************************************************)
EXTENDS Integers, Sequences, FiniteSets, TLC

VARIABLES
    checks_in,               \* the list of CheckResults handed to _finalize_report
    db_exists,               \* db_path.exists()
    tables,                  \* names of the tables of schema main
    view_exists,             \* v_canonical_continuous_bar_daily is a view of main
    g_continuous_bar_daily,  \* DailyBar rows
    dim_session,             \* CalendarDay rows (their trade_date)
    dim_instrument_metadata, \* instrument_id -> metadata row
    dim_roll_dates,          \* RollEvent rows
    dim_canonical_series,    \* CanonicalSeriesMapping rows
    canonical_config,        \* configs/canonical_series.yaml, normalized
    quote_defects,           \* validator names that count a violation in the quote/trade tables
    args,                    \* command line of run-diagnostics
    out                      \* what the most recent command returned / printed

vars == <<checks_in, db_exists, tables, view_exists, g_continuous_bar_daily,
          dim_session, dim_instrument_metadata, dim_roll_dates,
          dim_canonical_series, canonical_config, quote_defects, args, out>>

\* SQL NULL / Python None where an integer (an instrument id, a date) is expected,
\* and None where a string is expected.
NULL == -999
None == "None"

-----------------------------------------------------------------------------
(* Bounds of the model.                                                    *)

MaxChecks == 3     \* longest list of CheckResults handed to _finalize_report
MaxSymbolRoot == 5  \* longest root of a native symbol handed to parse_futures_symbol
MaxBars == 3       \* most DailyBar rows stored at one time
MaxRank == 2       \* highest rank handed to make_contract_series

-----------------------------------------------------------------------------
(* Small helpers.                                                          *)

Range(s) == {s[i] : i \in DOMAIN s}

\* sum(1 for c in checks if P(c))
CountIf(s, P(_)) == Cardinality({i \in DOMAIN s : P(s[i])})

\* All orders in which the rows of a result set can be fetched.
Perms(S) == {f \in [1..Cardinality(S) -> S] : \A i, j \in DOMAIN f : f[i] = f[j] => i = j}

-----------------------------------------------------------------------------
(* CheckResult and _finalize_report.                                       *)

Statuses == {"PASS", "WARN", "FAIL", "SKIP", "ERROR"}
Severities == {"HARD", "WARN", "INFO"}

CheckResult(id, st, sev) == [check_id |-> id, status |-> st, severity |-> sev]

\* Counts a HARD check only when its status is FAIL.
IsHardFailureFailOnly(c) == c.status = "FAIL" /\ c.severity = "HARD"

IsHardFailure(c) == c.status \in {"FAIL", "ERROR"} /\ c.severity = "HARD"

\* Counts a check as a warning only when its status is WARN.
IsWarningByStatus(c) == c.status = "WARN"

IsWarning(c) ==
    \/ c.status = "WARN"
    \/ c.status \in {"FAIL", "ERROR"} /\ c.severity = "WARN"

IsSkipped(c) == c.status = "SKIP"

IsPassed(c) == c.status = "PASS"

Overall(hard_failures, warnings) ==
    IF hard_failures # 0 THEN "FAIL" ELSE IF warnings # 0 THEN "WARN" ELSE "PASS"

_finalize_report(start, end, checks) ==
    LET hard_failures == CountIf(checks, IsHardFailure)
        warnings == CountIf(checks, IsWarning)
        skipped == CountIf(checks, IsSkipped)
        passed == CountIf(checks, IsPassed)
    IN  [meta |-> [window_start |-> start, window_end |-> end],
         summary |-> [overall_status |-> Overall(hard_failures, warnings),
                      hard_failures |-> hard_failures,
                      warnings |-> warnings,
                      skipped |-> skipped,
                      passed |-> passed,
                      total_checks |-> Len(checks)],
         checks |-> checks]

-----------------------------------------------------------------------------
(* The stored tables.                                                      *)

\* The trading dates of the model: 2025-01-02, 2025-01-03 and, after a weekend
\* without bars, 2025-01-06.
Dates == {2, 3, 6}

Instruments == {100, 200}

\* The contract series of the model, in the order sort_values puts them.
SeriesList == << <<"ES", "FRONT", "CALENDAR", "2D">>, <<"SR3", "RANK", "1", "CALENDAR">> >>
Series == Range(SeriesList)
SeriesIndex(cs) == CHOOSE i \in DOMAIN SeriesList : SeriesList[i] = cs

Roots == {cs[1] : cs \in Series}

\* dim_continuous_contract, as the loader fills it from the instruments file.
dim_continuous_contract == {[contract_series |-> cs, root |-> cs[1]] : cs \in Series}

\* One DailyBar row.
Bar(d, cs, id, o, h, l, c, v) ==
    [trading_date |-> d, contract_series |-> cs, underlying_instrument_id |-> id,
     open |-> o, high |-> h, low |-> l, close |-> c, volume |-> v]

\* A bar whose prices satisfy the OHLC relations.
SoundBar(d, cs, id) == Bar(d, cs, id, 2, 3, 1, 2, 1)

\* Natural key of g_continuous_bar_daily: (trading_date, contract_series).
BarKey(b) == <<b.trading_date, b.contract_series>>

\* insert or replace into g_continuous_bar_daily
LoadBar(table, b) == {x \in table : BarKey(x) # BarKey(b)} \cup {b}

\* What the symbology service resolves an instrument id to.
Symbology(id) ==
    IF id = 100 THEN [instrument_id |-> 100, native_symbol |-> "ESH5", expiry_date |-> 19]
                ELSE [instrument_id |-> id, native_symbol |-> "ESM5", expiry_date |-> 18]

\* INSERT OR REPLACE INTO dim_instrument_metadata
StoreMetadata(table, row) ==
    {x \in table : x.instrument_id # row.instrument_id} \cup {row}

-----------------------------------------------------------------------------
(* The roll detector: detect_and_store_roll_dates.                         *)

\* Leading digits of a token, -1 when it has none (the regex group (\d+)).
DigitsPrefix(tok) ==
    CASE tok = "0" -> 0
      [] tok = "1" -> 1
      [] tok = "2" -> 2
      [] tok = "2D" -> 2
      [] tok = "3" -> 3
      [] tok = "4" -> 4
      [] tok = "1D" -> 1
      [] OTHER -> -1

extract_rank(contract_series) ==
    IF \E i \in 2..(Len(contract_series) - 1) : contract_series[i] = "FRONT"
    THEN 0
    ELSE LET hits == {i \in 1..(Len(contract_series) - 1) :
                        /\ contract_series[i] = "RANK"
                        /\ DigitsPrefix(contract_series[i + 1]) >= 0}
         IN  IF hits = {} THEN 0
             ELSE DigitsPrefix(contract_series[(CHOOSE i \in hits : \A j \in hits : i <= j) + 1])

\* The SELECT ... JOIN dim_continuous_contract ... WHERE of the detector.
RollQuery(root) ==
    {b \in g_continuous_bar_daily :
        /\ b.underlying_instrument_id # NULL
        /\ \E c \in dim_continuous_contract :
              /\ c.contract_series = b.contract_series
              /\ (root = None \/ c.root = root)}

RECURSIVE InsertSorted(_, _, _)
InsertSorted(sorted, row, key) ==
    IF sorted = <<>> THEN <<row>>
    ELSE IF key[row] < key[Head(sorted)] THEN <<row>> \o sorted
    ELSE <<Head(sorted)>> \o InsertSorted(Tail(sorted), row, key)

RECURSIVE SortRec(_, _)
SortRec(df, key) ==
    IF df = <<>> THEN <<>>
    ELSE InsertSorted(SortRec(SubSeq(df, 1, Len(df) - 1), key), df[Len(df)], key)

\* The frame left in the order it was fetched.
unsorted_values(df, key) == df

\* DataFrame.sort_values: ascending by key (a function of the row).
sort_values(df, key) == SortRec(df, key)

\* Sort key of df.sort_values(['contract_series', 'rank', 'trading_date']).
SeriesRankDateKey(df) ==
    [r \in Range(df) |->
        SeriesIndex(r.contract_series) * 10000 + extract_rank(r.contract_series) * 100
            + r.trading_date]

DateKey(df) == [r \in Range(df) |-> r.trading_date]

\* The roll row with the two instrument ids exchanged.
RollRowSwapped(cs, rank, d, old, new) ==
    [contract_series |-> cs, rank |-> rank, roll_date |-> d,
     old_instrument_id |-> new, new_instrument_id |-> old]

RollRow(cs, rank, d, old, new) ==
    [contract_series |-> cs, rank |-> rank, roll_date |-> d,
     old_instrument_id |-> old, new_instrument_id |-> new]

\* The loop over one group's rows with prev_instrument_id.
RECURSIVE ScanGroup(_, _, _, _)
ScanGroup(group, prev_instrument_id, cs, rank) ==
    IF group = <<>> THEN <<>>
    ELSE LET current_instrument_id == Head(group).underlying_instrument_id
             current_date == Head(group).trading_date
             hit == IF prev_instrument_id # NULL /\ current_instrument_id # prev_instrument_id
                    THEN <<RollRow(cs, rank, current_date, prev_instrument_id,
                                   current_instrument_id)>>
                    ELSE <<>>
         IN  hit \o ScanGroup(Tail(group), current_instrument_id, cs, rank)

\* The groups of df.groupby(['contract_series', 'rank']), in key order, scanned.
RECURSIVE ScanGroups(_, _)
ScanGroups(df, i) ==
    IF i > Len(SeriesList) THEN <<>>
    ELSE LET cs == SeriesList[i]
             group == SelectSeq(df, LAMBDA r : r.contract_series = cs)
             sorted == sort_values(group, DateKey(group))
         IN  ScanGroup(sorted, NULL, cs, extract_rank(cs)) \o ScanGroups(df, i + 1)

\* roll_rows of one run over the rows fetched in the order df.
DetectRolls(df) ==
    ScanGroups(sort_values(df, SeriesRankDateKey(df)), 1)

\* Natural key of dim_roll_dates, the conflict target of INSERT OR REPLACE.
RollKey(r) == <<r.contract_series, r.rank, r.roll_date>>

\* metadata_dict.get(x, {}).get(field)
MetaSymbol(metadata_df, id) ==
    IF \E m \in metadata_df : m.instrument_id = id
    THEN (CHOOSE m \in metadata_df : m.instrument_id = id).native_symbol
    ELSE None

MetaExpiry(metadata_df, id) ==
    IF \E m \in metadata_df : m.instrument_id = id
    THEN (CHOOSE m \in metadata_df : m.instrument_id = id).expiry_date
    ELSE NULL

\* One record of roll_df after the four map() calls.
Enrich(r, metadata_df) ==
    [contract_series |-> r.contract_series, rank |-> r.rank, roll_date |-> r.roll_date,
     old_instrument_id |-> r.old_instrument_id, new_instrument_id |-> r.new_instrument_id,
     old_native_symbol |-> MetaSymbol(metadata_df, r.old_instrument_id),
     new_native_symbol |-> MetaSymbol(metadata_df, r.new_instrument_id),
     old_expiry_date |-> MetaExpiry(metadata_df, r.old_instrument_id),
     new_expiry_date |-> MetaExpiry(metadata_df, r.new_instrument_id)]

\* for record in roll_records: INSERT OR REPLACE INTO dim_roll_dates
RECURSIVE StoreRolls(_, _)
StoreRolls(table, records) ==
    IF records = <<>> THEN table
    ELSE StoreRolls({x \in table : RollKey(x) # RollKey(Head(records))} \cup {Head(records)},
                    Tail(records))

\* The rows of dim_instrument_metadata with instrument_id IN (all_ids).
MetadataQuery(roll_rows) ==
    LET all_ids == {roll_rows[i].old_instrument_id : i \in DOMAIN roll_rows}
                     \cup {roll_rows[i].new_instrument_id : i \in DOMAIN roll_rows}
    IN  {m \in dim_instrument_metadata : m.instrument_id \in all_ids}

\* Whether the run gets as far as the INSERT loop.
ReachesStore(roll_rows) == roll_rows # <<>> /\ MetadataQuery(roll_rows) # {}

-----------------------------------------------------------------------------
(* Commands that write the database.                                       *)

IdleOut == [cmd |-> "none"]

\* The count the preceding command inserted, when that command was a
\* calendar sync that ran and was no dry run; NULL otherwise.
PrevSync ==
    IF out.cmd = "sync-calendar" /\ ~ out.dry_run /\ out.ran THEN out.inserted ELSE NULL

AllTables ==
    {"dim_session", "dim_canonical_series", "g_continuous_bar_daily",
     "f_quote_l1", "f_trade", "dim_instrument",
     "f_fut_quote_l1", "f_fut_trade", "dim_fut_instrument",
     "f_continuous_quote_l1", "f_fred_observations"}

DefaultArgs == [start |-> NULL, end |-> NULL, window_days |-> 14, json_out |-> FALSE]

\* load(): one row of the bars file goes into g_continuous_bar_daily.
IngestBar(b) ==
    /\ "g_continuous_bar_daily" \in tables
    /\ Cardinality(LoadBar(g_continuous_bar_daily, b)) <= MaxBars
    /\ g_continuous_bar_daily' = LoadBar(g_continuous_bar_daily, b)
    /\ out' = [cmd |-> "ingest"]
    /\ UNCHANGED <<checks_in, db_exists, tables, view_exists, dim_session,
                   dim_instrument_metadata, dim_roll_dates, dim_canonical_series,
                   canonical_config, quote_defects, args>>

\* A stored bar is removed (source data withdrawn).
DeleteBar(b) ==
    /\ b \in g_continuous_bar_daily
    /\ g_continuous_bar_daily' = g_continuous_bar_daily \ {b}
    /\ out' = [cmd |-> "delete", trading_date |-> b.trading_date]
    /\ UNCHANGED <<checks_in, db_exists, tables, view_exists, dim_session,
                   dim_instrument_metadata, dim_roll_dates, dim_canonical_series,
                   canonical_config, quote_defects, args>>

\* populate_instrument_metadata for one instrument id of the stored bars.
PopulateMetadata(id) ==
    /\ \E b \in g_continuous_bar_daily : b.underlying_instrument_id = id
    /\ \A m \in dim_instrument_metadata : m.instrument_id # id
    /\ dim_instrument_metadata' = StoreMetadata(dim_instrument_metadata, Symbology(id))
    /\ out' = [cmd |-> "populate"]
    /\ UNCHANGED <<checks_in, db_exists, tables, view_exists, g_continuous_bar_daily,
                   dim_session, dim_roll_dates, dim_canonical_series,
                   canonical_config, quote_defects, args>>

\* detect-rolls: detect_and_store_roll_dates(con, root); root = None is --all.
detect_and_store_roll_dates(root) ==
    \E df \in Perms(RollQuery(root)) :
        LET roll_rows == DetectRolls(df)
            metadata_df == MetadataQuery(roll_rows)
            roll_records == [i \in DOMAIN roll_rows |-> Enrich(roll_rows[i], metadata_df)]
        IN  /\ dim_roll_dates' = IF ReachesStore(roll_rows)
                                 THEN StoreRolls(dim_roll_dates, roll_records)
                                 ELSE dim_roll_dates
            /\ out' = [cmd |-> "detect-rolls", root |-> root, roll_rows |-> roll_rows,
                       ret |-> IF ReachesStore(roll_rows) THEN Len(roll_rows) ELSE 0,
                       again |-> out.cmd = "detect-rolls" /\ out.root = root]
            /\ UNCHANGED <<checks_in, db_exists, tables, view_exists,
                           g_continuous_bar_daily, dim_session, dim_instrument_metadata,
                           dim_canonical_series, canonical_config, quote_defects, args>>

-----------------------------------------------------------------------------
(* run-diagnostics: _run and main of run_post_ingest_diagnostics.py.       *)

_table_exists(t) == t \in tables

\* The canonical view: one row per bar of a root's designated series.
v_canonical_continuous_bar_daily ==
    {[root |-> c.root, trading_date |-> b.trading_date] :
        <<b, c>> \in {x \in g_continuous_bar_daily \X dim_canonical_series :
                        x[1].contract_series = x[2].contract_series}}

\* A query of the view raises when a table the view reads has been dropped.
ViewQueryFails ==
    view_exists /\ ~ ({"g_continuous_bar_daily", "dim_canonical_series"} \subseteq tables)

MaxOf(S) == IF S = {} THEN NULL ELSE CHOOSE x \in S : \A y \in S : y <= x

\* _select_default_window(con)[0]
_select_default_window ==
    IF ~ view_exists THEN NULL
    ELSE MaxOf({r.trading_date : r \in v_canonical_continuous_bar_daily})

WindowEnd == IF args.end # NULL THEN args.end ELSE _select_default_window

WindowStart ==
    IF args.start # NULL THEN args.start
    ELSE IF WindowEnd = NULL THEN NULL
    ELSE WindowEnd - (IF args.window_days - 1 > 1 THEN args.window_days - 1 ELSE 1)

\* raise ValueError("start must be <= end")
StartAfterEnd == WindowStart # NULL /\ WindowEnd # NULL /\ WindowStart > WindowEnd

PassUnless(bad) == IF bad THEN "FAIL" ELSE "PASS"

SchemaChecks ==
    << CheckResult(<<"schema", "table", "dim_session">>,
                   PassUnless(~ _table_exists("dim_session")), "HARD"),
       CheckResult(<<"schema", "table", "dim_canonical_series">>,
                   PassUnless(~ _table_exists("dim_canonical_series")), "HARD"),
       CheckResult(<<"schema", "table", "g_continuous_bar_daily">>,
                   PassUnless(~ _table_exists("g_continuous_bar_daily")), "HARD"),
       CheckResult(<<"schema", "view", "v_canonical_continuous_bar_daily">>,
                   PassUnless(~ view_exists), "HARD") >>

RootsOf(mapping) == {r.root : r \in mapping}
RowOf(mapping, root) == CHOOSE r \in mapping : r.root = root

\* A reconciliation that compares the contract_series only.
_diff_series_only(expected, actual) ==
    [missing_in_db |-> RootsOf(expected) \ RootsOf(actual),
     extra_in_db |-> RootsOf(actual) \ RootsOf(expected),
     mismatches |-> {root \in RootsOf(expected) \cap RootsOf(actual) :
                        RowOf(expected, root).contract_series
                            # RowOf(actual, root).contract_series}]

_diff_canonical_config(expected, actual) ==
    [missing_in_db |-> RootsOf(expected) \ RootsOf(actual),
     extra_in_db |-> RootsOf(actual) \ RootsOf(expected),
     mismatches |-> {root \in RootsOf(expected) \cap RootsOf(actual) :
                        \/ RowOf(expected, root).contract_series
                              # RowOf(actual, root).contract_series
                        \/ RowOf(expected, root).optional # RowOf(actual, root).optional}]

\* Drift between config and database reported at severity WARN.
CanonicalMappingChecksWarn ==
    IF _table_exists("dim_canonical_series")
    THEN LET diff == _diff_canonical_config(canonical_config, dim_canonical_series)
             has_diff == diff.missing_in_db # {} \/ diff.extra_in_db # {}
                            \/ diff.mismatches # {}
         IN  << CheckResult(<<"canonical", "mapping", "sync">>,
                            IF has_diff THEN "WARN" ELSE "PASS", "WARN") >>
    ELSE << CheckResult(<<"canonical", "mapping", "sync">>, "SKIP", "HARD") >>

CanonicalMappingChecks ==
    IF _table_exists("dim_canonical_series")
    THEN LET diff == _diff_canonical_config(canonical_config, dim_canonical_series)
             has_diff == diff.missing_in_db # {} \/ diff.extra_in_db # {}
                            \/ diff.mismatches # {}
         IN  << CheckResult(<<"canonical", "mapping", "sync">>, PassUnless(has_diff), "HARD") >>
    ELSE << CheckResult(<<"canonical", "mapping", "sync">>, "SKIP", "HARD") >>

\* str(d) of a date: the digits of its ISO form YYYY-MM-DD.
IsoDate(d) == <<2, 0, 2, 5, 0, 1, d \div 10, d % 10>>

\* a < b on strings.
RECURSIVE StrLess(_, _)
StrLess(a, b) ==
    IF a = << >> THEN b # << >>
    ELSE IF b = << >> THEN FALSE
    ELSE IF Head(a) = Head(b) THEN StrLess(Tail(a), Tail(b))
    ELSE Head(a) < Head(b)

\* Stale only when the calendar is empty.
is_stale_when_empty(sess_max, bars_max) == sess_max = NULL

\* is_stale = sess_max is None or str(sess_max) < str(bars_max)
is_stale(sess_max, bars_max) ==
    sess_max = NULL \/ StrLess(IsoDate(sess_max), IsoDate(bars_max))

CalendarChecks ==
    IF _table_exists("dim_session") /\ _table_exists("g_continuous_bar_daily")
    THEN LET sess_cnt == Cardinality(dim_session)
             bars_cnt == Cardinality(g_continuous_bar_daily)
             sess_max == MaxOf({r.trade_date : r \in dim_session})
             bars_max == MaxOf({b.trading_date : b \in g_continuous_bar_daily})
         IN  << CheckResult(<<"calendar", "dim_session", "populated">>,
                            PassUnless(bars_cnt > 0 /\ sess_cnt = 0), "HARD") >>
             \o (IF bars_max # NULL
                 THEN << CheckResult(<<"calendar", "dim_session", "fresh">>,
                                     PassUnless(is_stale(sess_max, bars_max)), "HARD") >>
                 ELSE << >>)
    ELSE << CheckResult(<<"calendar", "dim_session", "populated">>, "SKIP", "HARD") >>

\* A comparison that also counts equal values.
SqlLessOrEqual(a, b) == a # NULL /\ b # NULL /\ a <= b

\* A SQL comparison a < b: not true when either side is NULL.
SqlLess(a, b) == a # NULL /\ b # NULL /\ a < b

CountRows(P(_)) == Cardinality({b \in g_continuous_bar_daily : P(b)})

\* validate_continuous_daily: (slug of the check name, violation count).
validate_continuous_daily ==
    << <<"duplicate_trading_date_contract_series_pairs",
         Cardinality({k \in {BarKey(b) : b \in g_continuous_bar_daily} :
              Cardinality({b \in g_continuous_bar_daily : BarKey(b) = k}) > 1})>>,
       <<"negative_volume_values", CountRows(LAMBDA b : SqlLess(b.volume, 0))>>,
       <<"non_cl_zero_or_negative_ohlc_prices",
         CountRows(LAMBDA b : b.contract_series[1] # "CL"
                      /\ (SqlLess(b.open, 1) \/ SqlLess(b.high, 1)
                            \/ SqlLess(b.low, 1) \/ SqlLess(b.close, 1)))>>,
       <<"cl_null_in_ohlc",
         CountRows(LAMBDA b : b.contract_series[1] = "CL"
                      /\ (b.open = NULL \/ b.high = NULL \/ b.low = NULL \/ b.close = NULL))>>,
       <<"null_trading_date", CountRows(LAMBDA b : b.trading_date = NULL)>>,
       <<"null_contract_series", CountRows(LAMBDA b : b.contract_series = << >>)>>,
       <<"null_close", CountRows(LAMBDA b : b.close = NULL)>>,
       <<"high_low", CountRows(LAMBDA b : SqlLess(b.high, b.low))>>,
       <<"high_open", CountRows(LAMBDA b : SqlLess(b.high, b.open))>>,
       <<"high_close", CountRows(LAMBDA b : SqlLess(b.high, b.close))>>,
       <<"low_open", CountRows(LAMBDA b : SqlLess(b.open, b.low))>>,
       <<"low_close", CountRows(LAMBDA b : SqlLess(b.close, b.low))>> >>

\* One HARD CheckResult per (name, count) of a validator, with the count as
\* its metric "violations".
ValidatorChecks(prefix, results) ==
    [i \in DOMAIN results |->
        [check_id |-> prefix \o <<results[i][1]>>,
         status |-> PassUnless(results[i][2] # 0),
         severity |-> "HARD",
         violations |-> results[i][2]]]

ContinuousDailyChecks ==
    IF _table_exists("g_continuous_bar_daily")
    THEN ValidatorChecks(<<"continuous_daily", "validator">>, validate_continuous_daily)
    ELSE << CheckResult(<<"continuous_daily", "validator">>, "SKIP", "HARD") >>

\* Roots of dim_canonical_series, optional or not, without a row in the window.
missing_any_root(start, end) ==
    {r.root : r \in {x \in dim_canonical_series :
        ~ \E v \in v_canonical_continuous_bar_daily :
             v.root = x.root /\ start <= v.trading_date /\ v.trading_date <= end}}

\* Roots of dim_canonical_series that are not optional and have no row of the
\* canonical view with start <= trading_date <= end.
missing_non_optional(start, end) ==
    {r.root : r \in {x \in dim_canonical_series :
        /\ ~ x.optional
        /\ ~ \E v \in v_canonical_continuous_bar_daily :
                v.root = x.root /\ start <= v.trading_date /\ v.trading_date <= end}}

CanonicalViewChecks ==
    IF view_exists
    THEN LET groups == {<<v.root, v.trading_date>> : v \in v_canonical_continuous_bar_daily}
             dup_cnt == Cardinality({g \in groups :
                 Cardinality({x \in g_continuous_bar_daily \X dim_canonical_series :
                     /\ x[1].contract_series = x[2].contract_series
                     /\ x[2].root = g[1] /\ x[1].trading_date = g[2]}) > 1})
         IN  << CheckResult(<<"canonical", "view", "unique_root_date">>,
                            PassUnless(dup_cnt # 0), "HARD") >>
             \o (IF WindowStart # NULL /\ WindowEnd # NULL
                       /\ _table_exists("dim_canonical_series")
                 THEN << CheckResult(<<"canonical", "view", "presence_recent_window">>,
                            IF missing_non_optional(WindowStart, WindowEnd) = {}
                            THEN "PASS" ELSE "WARN", "WARN") >>
                 ELSE << >>)
    ELSE << CheckResult(<<"canonical", "view", "unique_root_date">>, "SKIP", "HARD") >>

\* Violation count of a check over the quote and trade tables.
QuoteCount(id) == IF id \in quote_defects THEN 1 ELSE 0

validate_options ==
    << <<"negative_spreads", QuoteCount("negative_spreads")>>,
       <<"unlinked_instruments_quotes", QuoteCount("unlinked_instruments_quotes")>>,
       <<"unlinked_instruments_trades", QuoteCount("unlinked_instruments_trades")>> >>

\* validate_options reads f_quote_l1, dim_instrument and f_trade.
OptionsQueryFails ==
    _table_exists("f_quote_l1") /\ ~ ({"dim_instrument", "f_trade"} \subseteq tables)

OptionsChecks ==
    IF _table_exists("f_quote_l1")
    THEN ValidatorChecks(<<"options", "validator">>, validate_options)
    ELSE << CheckResult(<<"options", "validator">>, "SKIP", "INFO") >>

validate_futures ==
    << <<"unlinked_instruments_quotes", QuoteCount("fut_unlinked_instruments_quotes")>>,
       <<"unlinked_instruments_trades", QuoteCount("fut_unlinked_instruments_trades")>> >>

\* validate_futures reads f_fut_quote_l1, dim_fut_instrument and f_fut_trade.
FuturesQueryFails ==
    _table_exists("f_fut_quote_l1") /\ ~ ({"dim_fut_instrument", "f_fut_trade"} \subseteq tables)

FuturesChecks ==
    IF _table_exists("f_fut_quote_l1")
    THEN ValidatorChecks(<<"futures", "validator">>, validate_futures)
    ELSE << CheckResult(<<"futures", "validator">>, "SKIP", "INFO") >>

DuplicateCandidates ==
    << "f_quote_l1", "f_fut_quote_l1", "f_continuous_quote_l1",
       "g_continuous_bar_daily", "f_fred_observations" >>

_duplicate_key_checks ==
    [i \in DOMAIN DuplicateCandidates |->
        LET table == DuplicateCandidates[i]
            dup_groups == IF table = "g_continuous_bar_daily"
                          THEN validate_continuous_daily[1][2]
                          ELSE QuoteCount(<<"duplicates", table>>)
        IN  IF ~ _table_exists(table)
            THEN CheckResult(<<"integrity", "duplicates", table>>, "SKIP", "INFO")
            ELSE CheckResult(<<"integrity", "duplicates", table>>,
                             PassUnless(dup_groups # 0), "HARD")]

\* The checks of one run, in the order _run appends them.
RunChecks ==
    SchemaChecks \o CanonicalMappingChecks \o CalendarChecks \o ContinuousDailyChecks
        \o CanonicalViewChecks \o OptionsChecks \o FuturesChecks \o _duplicate_key_checks

\* An exception leaves _run: the window is inverted or a query fails.
RunRaises ==
    StartAfterEnd \/ ViewQueryFails \/ OptionsQueryFails \/ FuturesQueryFails

\* Exit code 2 whenever the report counts a hard failure or a warning.
ExitCodeOnAnyIssue(report) ==
    IF report.summary.hard_failures > 0 \/ report.summary.warnings > 0 THEN 2 ELSE 0

ExitCode(report) == IF report.summary.hard_failures > 0 THEN 2 ELSE 0

NoReport == [checks |-> << >>]

\* What main() returns and what the run emitted.
RunOutcome ==
    IF ~ db_exists
    THEN [cmd |-> "run-diagnostics", raised |-> FALSE, exit_code |-> 2,
          report |-> _finalize_report(NULL, NULL,
                        << CheckResult(<<"env", "db_exists">>, "FAIL", "HARD") >>),
          printed |-> FALSE, json_written |-> FALSE, prev_sync |-> PrevSync]
    ELSE IF RunRaises
    THEN [cmd |-> "run-diagnostics", raised |-> TRUE, exit_code |-> 1,
          report |-> NoReport, printed |-> FALSE, json_written |-> FALSE,
          prev_sync |-> PrevSync]
    ELSE LET report == _finalize_report(WindowStart, WindowEnd, RunChecks)
         IN  [cmd |-> "run-diagnostics", raised |-> FALSE, exit_code |-> ExitCode(report),
              report |-> report, printed |-> TRUE, json_written |-> args.json_out,
              prev_sync |-> PrevSync]

\* run-diagnostics: main().
run_diagnostics ==
    /\ out' = RunOutcome
    /\ UNCHANGED <<checks_in, db_exists, tables, view_exists, g_continuous_bar_daily,
                   dim_session, dim_instrument_metadata, dim_roll_dates,
                   dim_canonical_series, canonical_config, quote_defects, args>>

\* _finalize_report on a list of CheckResults.
FinalizeReport ==
    /\ out.cmd = "none"
    /\ out' = [cmd |-> "finalize", report |-> _finalize_report(NULL, NULL, checks_in)]
    /\ UNCHANGED <<checks_in, db_exists, tables, view_exists, g_continuous_bar_daily,
                   dim_session, dim_instrument_metadata, dim_roll_dates,
                   dim_canonical_series, canonical_config, quote_defects, args>>

-----------------------------------------------------------------------------
(* sync-calendar: sync_dim_session_from_data and the script's main.        *)

\* A dim_session row; week, month and quarter are functions of trade_date.
SessionRow(d, is_holiday) == [trade_date |-> d, is_holiday |-> is_holiday]

\* trading_date NOT IN (SELECT trade_date FROM dim_session), DISTINCT.
NewTradingDates ==
    {b.trading_date : b \in g_continuous_bar_daily} \ ({r.trade_date : r \in dim_session} \cup {NULL})

\* A sync that rebuilds the calendar from the stored bars.
sync_rebuild_from_bars(dry_run) ==
    [ret |-> Cardinality(NewTradingDates),
     dim_session |-> IF dry_run THEN dim_session
                     ELSE {SessionRow(d, FALSE) :
                             d \in {b.trading_date : b \in g_continuous_bar_daily}}]

\* A sync that counts every stored trading date, new or not.
sync_counts_every_date(dry_run) ==
    [ret |-> Cardinality({b.trading_date : b \in g_continuous_bar_daily}),
     dim_session |-> IF dry_run THEN dim_session
                     ELSE dim_session \cup {SessionRow(d, FALSE) : d \in NewTradingDates}]

\* A sync that inserts the earliest missing trading date only.
sync_earliest_date_only(dry_run) ==
    LET count_result == Cardinality(NewTradingDates)
        first == {d \in NewTradingDates : \A e \in NewTradingDates : d <= e}
    IN  [ret |-> count_result,
         dim_session |-> IF dry_run \/ count_result = 0 THEN dim_session
                         ELSE dim_session \cup {SessionRow(d, FALSE) : d \in first}]

\* sync_dim_session_from_data(con, dry_run): the returned count and the
\* table afterwards.
sync_dim_session_from_data(dry_run) ==
    LET count_result == Cardinality(NewTradingDates)
    IN  [ret |-> count_result,
         dim_session |-> IF dry_run \/ count_result = 0 THEN dim_session
                         ELSE dim_session \cup {SessionRow(d, FALSE) : d \in NewTradingDates}]

\* main() of sync_session_from_data.py.
sync_calendar(dry_run) ==
    LET usable == db_exists /\ _table_exists("dim_session")
                    /\ _table_exists("g_continuous_bar_daily")
        ran == usable /\ g_continuous_bar_daily # {}
        result == sync_dim_session_from_data(dry_run)
    IN  /\ dim_session' = IF ran THEN result.dim_session ELSE dim_session
        /\ out' = [cmd |-> "sync-calendar", dry_run |-> dry_run,
                   exit_code |-> IF usable THEN 0 ELSE 1,
                   ran |-> ran,
                   inserted |-> IF ran THEN result.ret ELSE 0,
                   prev_sync |-> PrevSync]
        /\ UNCHANGED <<checks_in, db_exists, tables, view_exists, g_continuous_bar_daily,
                       dim_instrument_metadata, dim_roll_dates, dim_canonical_series,
                       canonical_config, quote_defects, args>>

-----------------------------------------------------------------------------
(* render-health-report: main of generate_health_report.py.                *)

\* --days-back when --window-days is not given.
DaysBack == 365

\* The window of the report: [start, end], or NULL when none can be inferred.
HealthWindow(window_days) ==
    LET max_d == MaxOf({r.trading_date : r \in v_canonical_continuous_bar_daily})
    IN  IF max_d = NULL THEN NULL
        ELSE IF window_days = NULL
        THEN <<max_d - (IF DaysBack - 1 > 1 THEN DaysBack - 1 ELSE 1), max_d>>
        ELSE <<max_d - ((IF window_days > 1 THEN window_days ELSE 1) - 1), max_d>>

\* A report that first brings the calendar up to date.
render_health_report_syncing(window_days) ==
    /\ out' = [cmd |-> "render-health-report", exit_code |-> 0, window |-> NULL]
    /\ dim_session' = sync_dim_session_from_data(FALSE).dim_session
    /\ UNCHANGED <<checks_in, db_exists, tables, view_exists, g_continuous_bar_daily,
                   dim_instrument_metadata, dim_roll_dates,
                   dim_canonical_series, canonical_config, quote_defects, args>>

\* main(): reads the view and dim_canonical_series, writes the HTML file.
render_health_report(window_days) ==
    LET usable == db_exists /\ view_exists /\ ~ ViewQueryFails
                    /\ _table_exists("dim_canonical_series")
        window == IF usable THEN HealthWindow(window_days) ELSE NULL
    IN  /\ out' = [cmd |-> "render-health-report",
                   exit_code |-> IF usable /\ window # NULL THEN 0 ELSE 1,
                   window |-> window]
        /\ UNCHANGED <<checks_in, db_exists, tables, view_exists, g_continuous_bar_daily,
                       dim_session, dim_instrument_metadata, dim_roll_dates,
                       dim_canonical_series, canonical_config, quote_defects, args>>

-----------------------------------------------------------------------------
(* SpecRolls: detect-rolls runs, once or repeatedly, on any stored table   *)
(* of at most MaxBars bars and any stored instrument metadata.             *)

\* The tables of sound bars with unique keys and at most MaxBars rows whose
\* series are in S and whose instrument ids are in I.
BarTables(S, I) ==
    LET Absent == -1
        keys == Dates \X S
        fill == {f \in [keys -> I \cup {Absent}] :
                    Cardinality({k \in keys : f[k] # Absent}) <= MaxBars}
    IN  {{SoundBar(k[1], k[2], f[k]) : k \in {x \in keys : f[x] # Absent}} : f \in fill}

MetadataTables == {{Symbology(id) : id \in I} : I \in SUBSET Instruments}

InitRolls ==
    /\ checks_in = <<>>
    /\ db_exists = TRUE
    /\ tables = AllTables
    /\ view_exists = TRUE
    /\ g_continuous_bar_daily \in BarTables(Series, Instruments \cup {NULL})
    /\ dim_session = {}
    /\ dim_instrument_metadata \in MetadataTables
    /\ dim_roll_dates = {}
    /\ dim_canonical_series = {}
    /\ canonical_config = {}
    /\ quote_defects = {}
    /\ args = DefaultArgs
    /\ out = IdleOut

NextRolls == \E root \in Roots \cup {None} : detect_and_store_roll_dates(root)

SpecRolls == InitRolls /\ [][NextRolls]_vars

-----------------------------------------------------------------------------
(* SpecRollHistory: the bars of one series are ingested, corrected and     *)
(* withdrawn, metadata is resolved and detect-rolls runs, in any order.    *)

InitRollHistory ==
    /\ checks_in = <<>>
    /\ db_exists = TRUE
    /\ tables = AllTables
    /\ view_exists = TRUE
    /\ g_continuous_bar_daily = {}
    /\ dim_session = {}
    /\ dim_instrument_metadata = {}
    /\ dim_roll_dates = {}
    /\ dim_canonical_series = {}
    /\ canonical_config = {}
    /\ quote_defects = {}
    /\ args = DefaultArgs
    /\ out = IdleOut

NextRollHistory ==
    \/ \E d \in Dates, id \in Instruments : IngestBar(SoundBar(d, SeriesList[1], id))
    \/ \E b \in g_continuous_bar_daily : DeleteBar(b)
    \/ \E id \in Instruments : PopulateMetadata(id)
    \/ \E root \in Roots \cup {None} : detect_and_store_roll_dates(root)

SpecRollHistory == InitRollHistory /\ [][NextRollHistory]_vars

-----------------------------------------------------------------------------
(* SpecReport: _finalize_report on any list of at most MaxChecks results.  *)

CheckLists ==
    UNION {[1..n -> {CheckResult(<<"check">>, st, sev) : st \in Statuses, sev \in Severities}] :
             n \in 0..MaxChecks}

InitReport ==
    /\ checks_in \in CheckLists
    /\ db_exists = TRUE
    /\ tables = AllTables
    /\ view_exists = TRUE
    /\ g_continuous_bar_daily = {}
    /\ dim_session = {}
    /\ dim_instrument_metadata = {}
    /\ dim_roll_dates = {}
    /\ dim_canonical_series = {}
    /\ canonical_config = {}
    /\ quote_defects = {}
    /\ args = DefaultArgs
    /\ out = IdleOut

NextReport == FinalizeReport

SpecReport == InitReport /\ [][NextReport]_vars

-----------------------------------------------------------------------------
(* SpecDiag: run-diagnostics on a database of any structure (tables and    *)
(* view present or absent) and, with the full structure, of varied content. *)

\* A canonical mapping row for a series of the model.
CanonicalRow(cs, optional) ==
    [root |-> cs[1], contract_series |-> cs, optional |-> optional,
     description |-> "canonical series"]

\* The mappings with at most one row per root.
CanonicalMappings ==
    {{CanonicalRow(SeriesList[i], f[i] = "optional") :
            i \in {j \in DOMAIN SeriesList : f[j] # "absent"}} :
        f \in [DOMAIN SeriesList -> {"optional", "required", "absent"}]}

\* The configured mapping: ES required, SR3 optional.
ConfiguredMapping == {CanonicalRow(SeriesList[1], FALSE), CanonicalRow(SeriesList[2], TRUE)}

\* A bar whose high is below its low.
UnsoundBar(d, cs, id) == Bar(d, cs, id, 2, 1, 3, 2, 1)

ArgSets ==
    [start : {NULL, 2, 6}, end : {NULL, 3}, window_days : {1, 14}, json_out : BOOLEAN]

\* Any structure; each present table holds sound, consistent content.
InitDiagStructure ==
    /\ db_exists \in BOOLEAN
    /\ tables \in IF db_exists THEN SUBSET AllTables ELSE {{}}
    /\ view_exists \in IF db_exists THEN BOOLEAN ELSE {FALSE}
    /\ g_continuous_bar_daily =
          IF "g_continuous_bar_daily" \in tables
          THEN {SoundBar(2, SeriesList[1], 100), SoundBar(3, SeriesList[1], 100)}
          ELSE {}
    /\ dim_session = IF "dim_session" \in tables
                     THEN {SessionRow(2, FALSE), SessionRow(3, FALSE)} ELSE {}
    /\ dim_canonical_series = IF "dim_canonical_series" \in tables
                              THEN ConfiguredMapping ELSE {}
    /\ canonical_config = ConfiguredMapping
    /\ quote_defects = {}
    /\ args \in {a \in ArgSets : a.window_days = 14 /\ a.start # 2}

\* The full structure; the content varies.
InitDiagContent ==
    /\ db_exists = TRUE
    /\ tables = AllTables
    /\ view_exists = TRUE
    /\ g_continuous_bar_daily \in
          BarTables({SeriesList[1]}, {100}) \cup {{UnsoundBar(2, SeriesList[1], 100)}}
    /\ dim_session \in {{SessionRow(d, FALSE) : d \in D} : D \in SUBSET Dates}
    /\ dim_canonical_series \in CanonicalMappings
    /\ canonical_config \in {ConfiguredMapping,
                             {CanonicalRow(SeriesList[i], FALSE) : i \in DOMAIN SeriesList}}
    /\ quote_defects \in {{}, {"negative_spreads"}}
    /\ args \in ArgSets

InitDiag ==
    /\ checks_in = <<>>
    /\ dim_instrument_metadata = {}
    /\ dim_roll_dates = {}
    /\ out = IdleOut
    /\ (InitDiagStructure \/ InitDiagContent)

NextDiag == run_diagnostics

SpecDiag == InitDiag /\ [][NextDiag]_vars

-----------------------------------------------------------------------------
(* parse_futures_symbol.  A string is the sequence of its characters.      *)

\* MONTH_CODES
MONTH_CODES ==
    [c \in {"F", "G", "H", "J", "K", "M", "N", "Q", "U", "V", "X", "Z"} |->
        CASE c = "F" -> 1 [] c = "G" -> 2 [] c = "H" -> 3 [] c = "J" -> 4
          [] c = "K" -> 5 [] c = "M" -> 6 [] c = "N" -> 7 [] c = "Q" -> 8
          [] c = "U" -> 9 [] c = "V" -> 10 [] c = "X" -> 11 [] c = "Z" -> 12]

\* str.upper() of one character.
upper(ch) == CASE ch = "h" -> "H" [] ch = "z" -> "Z" [] OTHER -> ch

Digits == <<"0", "1", "2", "3", "4", "5", "6", "7", "8", "9">>

\* The character U+00B2, superscript two.
SuperscriptTwo == "^2"

\* The characters str.isdigit() accepts: the decimal digits and the other
\* characters of Unicode's digit property, such as the superscript two.
IsdigitChars == {Digits[k] : k \in DOMAIN Digits} \cup {SuperscriptTwo}

\* str.isdigit(): not empty, digit characters only.
isdigit(str) == str # << >> /\ \A i \in DOMAIN str : str[i] \in IsdigitChars

\* int(str) returns: every character is a decimal digit.  Otherwise it
\* raises ValueError.
int_returns(str) ==
    str # << >> /\ \A i \in DOMAIN str : \E k \in DOMAIN Digits : Digits[k] = str[i]

\* int(str) of a string of digits.
RECURSIVE int(_)
int(str) ==
    IF str = << >> THEN 0
    ELSE 10 * int(SubSeq(str, 1, Len(str) - 1))
           + (CHOOSE k \in DOMAIN Digits : Digits[k] = str[Len(str)]) - 1

\* The longest root the loop tries: range(1, 5).
MaxRootLen == 4

\* Every year code is put in the 2000s.
year_in_2000s(year_str) == 2000 + int(year_str)

\* The year of a year code.
year_of(year_str) ==
    IF Len(year_str) = 1 THEN 2000 + int(year_str)
    ELSE IF int(year_str) <= 50 THEN 2000 + int(year_str)
    ELSE 1900 + int(year_str)

\* parse_futures_symbol returned None.
NoMatch == [matched |-> FALSE, raised |-> FALSE]

\* int(year_str) raised out of parse_futures_symbol.
ValueError == [matched |-> FALSE, raised |-> TRUE]

\* The split at root_len is a root, a month code and a year code.
SplitMatches(native_symbol, root_len) ==
    /\ root_len < Len(native_symbol)
    /\ Len(native_symbol) - root_len >= 2
    /\ upper(native_symbol[root_len + 1]) \in DOMAIN MONTH_CODES
    /\ isdigit(SubSeq(native_symbol, root_len + 2, Len(native_symbol)))

parse_futures_symbol(native_symbol) ==
    IF Len(native_symbol) < 3 THEN NoMatch
    ELSE LET lens == {n \in 1..MaxRootLen : SplitMatches(native_symbol, n)}
         IN  IF lens = {} THEN NoMatch
             ELSE LET root_len == CHOOSE n \in lens : \A k \in lens : n <= k
                      month_code == upper(native_symbol[root_len + 1])
                      year_str == SubSeq(native_symbol, root_len + 2, Len(native_symbol))
                  IN  IF ~ int_returns(year_str) THEN ValueError
                      ELSE [matched |-> TRUE,
                            raised |-> FALSE,
                            root |-> SubSeq(native_symbol, 1, root_len),
                            month |-> MONTH_CODES[month_code],
                            year |-> year_of(year_str),
                            month_code |-> month_code,
                            native_symbol |-> native_symbol]

\* parse_futures_symbol(native_symbol) on the symbol given.
Parse ==
    /\ out.cmd = "none"
    /\ out' = [cmd |-> "parse", result |-> parse_futures_symbol(args.native_symbol)]
    /\ UNCHANGED <<checks_in, db_exists, tables, view_exists, g_continuous_bar_daily,
                   dim_session, dim_instrument_metadata, dim_roll_dates,
                   dim_canonical_series, canonical_config, quote_defects, args>>

-----------------------------------------------------------------------------
(* SpecParse: parse_futures_symbol on the symbols made of a root of at     *)
(* most MaxSymbolRoot characters, a month code and a year code.            *)

RootChars == {"E", "S", "R", "3", "Z"}

YearCodes == { <<"6">>, <<"0">>, <<"2", "5">>, <<"0", "5">>, <<"5", "0">>, <<"5", "1">>,
               <<"9", "9">>, <<SuperscriptTwo>> }

\* The empty string, strings of fewer than 3 characters, a calendar spread,
\* an option, a symbol with a lower-case month code and a bare root.
OtherSymbols ==
    { << >>, <<"E">>, <<"E", "H">>, <<"H", "6">>,
      <<"E", "S", "H", "6", "-", "E", "S", "M", "6">>,
      <<"E", "S", "H", "6", " ", "C", "5", "0">>,
      <<"E", "S", "h", "6">>,
      <<"E", "S", "R">> }

NativeSymbols ==
    {root \o <<code>> \o yy :
        root \in UNION {[1..n -> RootChars] : n \in 1..MaxSymbolRoot},
        code \in {"H", "Z"}, yy \in YearCodes}
      \cup OtherSymbols

InitParse ==
    /\ checks_in = <<>>
    /\ db_exists = TRUE
    /\ tables = AllTables
    /\ view_exists = TRUE
    /\ g_continuous_bar_daily = {}
    /\ dim_session = {}
    /\ dim_instrument_metadata = {}
    /\ dim_roll_dates = {}
    /\ dim_canonical_series = {}
    /\ canonical_config = {}
    /\ quote_defects = {}
    /\ args \in [native_symbol : NativeSymbols]
    /\ out = IdleOut

NextParse == Parse

SpecParse == InitParse /\ [][NextParse]_vars


-----------------------------------------------------------------------------
(* calculate_imm_date.  A date is a record [year, month, day].             *)

\* calendar.isleap(year).
isleap(year) == year % 4 = 0 /\ (year % 100 # 0 \/ year % 400 = 0)

\* The number of days of a month.
days_in_month(year, month) ==
    IF month = 2 THEN (IF isleap(year) THEN 29 ELSE 28)
    ELSE IF month \in {4, 6, 9, 11} THEN 30 ELSE 31

\* The days of the year before the first of a month.
RECURSIVE days_before_month(_, _)
days_before_month(year, month) ==
    IF month = 1 THEN 0
    ELSE days_before_month(year, month - 1) + days_in_month(year, month - 1)

\* date.toordinal(): 0001-01-01 is day 1.
toordinal(d) ==
    LET y == d.year - 1
    IN  y * 365 + y \div 4 - y \div 100 + y \div 400
          + days_before_month(d.year, d.month) + d.day

\* date.weekday(): Monday is 0, Wednesday is 2.
weekday(d) == (toordinal(d) + 6) % 7

\* date + timedelta(days = n), n >= 0.
RECURSIVE add_days(_, _)
add_days(d, n) ==
    IF n = 0 THEN d
    ELSE IF d.day < days_in_month(d.year, d.month)
         THEN add_days([d EXCEPT !.day = d.day + 1], n - 1)
    ELSE IF d.month < 12
         THEN add_days([year |-> d.year, month |-> d.month + 1, day |-> 1], n - 1)
    ELSE add_days([year |-> d.year + 1, month |-> 1, day |-> 1], n - 1)

\* The days to the next Wednesday, a Wednesday itself counted a week off.
days_to_add_after(wd) == IF wd < 2 THEN 2 - wd ELSE 7 - (wd - 2)

\* The days from a first of the month on weekday wd to the first Wednesday.
days_to_add(wd) ==
    IF wd < 2 THEN 2 - wd
    ELSE IF wd > 2 THEN 7 - (wd - 2)
    ELSE 0

calculate_imm_date(month, year) ==
    LET first_day == [year |-> year, month |-> month, day |-> 1]
        first_wednesday == add_days(first_day, days_to_add(weekday(first_day)))
    IN  add_days(first_wednesday, 14)

\* calculate_imm_date(month, year) on the month and year given.
ImmDate ==
    /\ out.cmd = "none"
    /\ out' = [cmd |-> "imm", result |-> calculate_imm_date(args.month, args.year)]
    /\ UNCHANGED <<checks_in, db_exists, tables, view_exists, g_continuous_bar_daily,
                   dim_session, dim_instrument_metadata, dim_roll_dates,
                   dim_canonical_series, canonical_config, quote_defects, args>>

-----------------------------------------------------------------------------
(* SpecImm: calculate_imm_date on every month of the years FirstYear to    *)
(* MaxYear, which hold leap years and the centuries 1900, 2000 and 2100.   *)

FirstYear == 1896
MaxYear == 2104

InitImm ==
    /\ checks_in = <<>>
    /\ db_exists = TRUE
    /\ tables = AllTables
    /\ view_exists = TRUE
    /\ g_continuous_bar_daily = {}
    /\ dim_session = {}
    /\ dim_instrument_metadata = {}
    /\ dim_roll_dates = {}
    /\ dim_canonical_series = {}
    /\ canonical_config = {}
    /\ quote_defects = {}
    /\ args \in [month : 1..12, year : FirstYear..MaxYear]
    /\ out = IdleOut

NextImm == ImmDate

SpecImm == InitImm /\ [][NextImm]_vars


-----------------------------------------------------------------------------
(* make_contract_series.  A roll strategy is the sequence of its words and *)
(* the separators between them: "calendar-2d" is <<"calendar", "-", "2d">>.*)

\* str.upper() of a word of a roll strategy.
upper_word(w) ==
    CASE w = "calendar" -> "CALENDAR"
      [] w = "volume" -> "VOLUME"
      [] w = "open" -> "OPEN"
      [] w = "interest" -> "INTEREST"
      [] w = "2d" -> "2D"
      [] w = "1d" -> "1D"
      [] OTHER -> w

\* replace("-", "_").replace(" ", "_").upper(): the tokens of the tag.
RECURSIVE _normalize_roll_strategy(_)
_normalize_roll_strategy(roll_strategy) ==
    IF roll_strategy = << >> THEN << >>
    ELSE IF Head(roll_strategy) \in {"-", " "}
         THEN _normalize_roll_strategy(Tail(roll_strategy))
    ELSE <<upper_word(Head(roll_strategy))>> \o _normalize_roll_strategy(Tail(roll_strategy))

\* Rank 1 is named FRONT as well.
make_contract_series_front_to_1(root, roll_strategy, rank) ==
    <<root>> \o (IF rank <= 1 THEN <<"FRONT">> ELSE <<"RANK", Digits[rank + 1]>>)
             \o _normalize_roll_strategy(roll_strategy)

\* f"{root}_{prefix}_{strategy_tag}", as the tokens between the "_".
make_contract_series(root, roll_strategy, rank) ==
    LET strategy_tag == _normalize_roll_strategy(roll_strategy)
        prefix == IF rank = 0 THEN <<"FRONT">> ELSE <<"RANK", Digits[rank + 1]>>
    IN  <<root>> \o prefix \o strategy_tag

\* make_contract_series on the arguments given, then the detector's
\* extract_rank on the identifier.
MakeSeries ==
    /\ out.cmd = "none"
    /\ out' = LET id == make_contract_series(args.root, args.roll_strategy, args.rank)
              IN  [cmd |-> "make-series", id |-> id, rank |-> extract_rank(id)]
    /\ UNCHANGED <<checks_in, db_exists, tables, view_exists, g_continuous_bar_daily,
                   dim_session, dim_instrument_metadata, dim_roll_dates,
                   dim_canonical_series, canonical_config, quote_defects, args>>

-----------------------------------------------------------------------------
(* SpecSeries: make_contract_series on the roots and roll strategies of    *)
(* the downloaders and every rank up to MaxRank.                           *)

SeriesRoots == {"ES", "NQ", "RTY", "SR3"}

RollStrategies ==
    { <<"calendar">>, <<"volume">>, <<"open", "-", "interest">>,
      <<"calendar", "-", "2d">>, <<"calendar", "-", "1d">> }

InitSeries ==
    /\ checks_in = <<>>
    /\ db_exists = TRUE
    /\ tables = AllTables
    /\ view_exists = TRUE
    /\ g_continuous_bar_daily = {}
    /\ dim_session = {}
    /\ dim_instrument_metadata = {}
    /\ dim_roll_dates = {}
    /\ dim_canonical_series = {}
    /\ canonical_config = {}
    /\ quote_defects = {}
    /\ args \in [root : SeriesRoots, roll_strategy : RollStrategies, rank : 0..MaxRank]
    /\ out = IdleOut

NextSeries == MakeSeries

SpecSeries == InitSeries /\ [][NextSeries]_vars


-----------------------------------------------------------------------------
(* SpecValid: run-diagnostics on a complete database whose daily bars hold *)
(* any prices, absent ones included, in any order of size.                 *)

\* The values of a price column: three prices and NULL.
Prices == {NULL, 1, 2, 3}

\* The bars of one date of one series with any prices.
PricedBars(d) ==
    {Bar(d, SeriesList[1], 100, o, h, l, c, 1) :
        o \in {NULL, 2}, h \in Prices, l \in Prices, c \in {NULL, 2}}

InitValid ==
    /\ checks_in = <<>>
    /\ db_exists = TRUE
    /\ tables = AllTables
    /\ view_exists = TRUE
    /\ g_continuous_bar_daily \in
          {{}} \cup {{b} : b \in PricedBars(2)}
               \cup {{b1, b2} : b1 \in PricedBars(2), b2 \in PricedBars(3)}
    /\ dim_session = {SessionRow(2, FALSE), SessionRow(3, FALSE)}
    /\ dim_instrument_metadata = {}
    /\ dim_roll_dates = {}
    /\ dim_canonical_series = ConfiguredMapping
    /\ canonical_config = ConfiguredMapping
    /\ quote_defects = {}
    /\ args = [start |-> NULL, end |-> NULL, window_days |-> 14, json_out |-> FALSE]
    /\ out = IdleOut

NextValid == run_diagnostics

SpecValid == InitValid /\ [][NextValid]_vars

-----------------------------------------------------------------------------
(* SpecCanon: the reconciliation of any configured mapping with any stored *)
(* mapping of the two roots.                                               *)

\* A second series a root can be mapped to: the next rank of its series.
OtherSeries(cs) == <<cs[1], "RANK", "1", "CALENDAR", "2D">>

\* The mappings with at most one row per root, of either series, optional or not.
CanonicalMappingsAnySeries ==
    {{CanonicalRow(IF f[i][1] = "other" THEN OtherSeries(SeriesList[i]) ELSE SeriesList[i],
                   f[i][2] = "optional") :
            i \in {j \in DOMAIN SeriesList : f[j][1] # "absent"}} :
        f \in [DOMAIN SeriesList ->
                 {<<"absent", "required">>} \cup
                 ({"own", "other"} \X {"optional", "required"})]}

\* The mappings that differ from `mapping` in descriptions at most.
Redescribed(mapping) ==
    {{[r EXCEPT !.description = IF r.root \in R THEN "edited" ELSE r.description] :
            r \in mapping} : R \in SUBSET RootsOf(mapping)}

\* _diff_canonical_config(expected, actual) on the configured and the stored mapping.
DiffCanonical ==
    /\ out.cmd = "none"
    /\ out' = [cmd |-> "diff",
               diff |-> _diff_canonical_config(canonical_config, dim_canonical_series)]
    /\ UNCHANGED <<checks_in, db_exists, tables, view_exists, g_continuous_bar_daily,
                   dim_session, dim_instrument_metadata, dim_roll_dates,
                   dim_canonical_series, canonical_config, quote_defects, args>>

InitCanon ==
    /\ checks_in = <<>>
    /\ db_exists = TRUE
    /\ tables = AllTables
    /\ view_exists = TRUE
    /\ g_continuous_bar_daily = {}
    /\ dim_session = {}
    /\ dim_instrument_metadata = {}
    /\ dim_roll_dates = {}
    /\ dim_canonical_series \in UNION {Redescribed(m) : m \in CanonicalMappingsAnySeries}
    /\ canonical_config \in CanonicalMappingsAnySeries
    /\ quote_defects = {}
    /\ args = DefaultArgs
    /\ out = IdleOut

NextCanon == DiffCanonical

SpecCanon == InitCanon /\ [][NextCanon]_vars

-----------------------------------------------------------------------------
(* SpecCal: bars are ingested and withdrawn, the calendar is synced, dry   *)
(* or not, and detect-rolls, run-diagnostics and render-health-report run, *)
(* in any order, starting from any stored bars and any calendar.           *)

\* The calendars with at most one row per date.
Calendars ==
    {{SessionRow(d, f[d] = "holiday") : d \in {e \in Dates : f[e] # "absent"}} :
        f \in [Dates -> {"holiday", "session", "absent"}]}

InitCal ==
    /\ checks_in = <<>>
    /\ db_exists \in BOOLEAN
    /\ tables \in {AllTables, AllTables \ {"dim_session"},
                   AllTables \ {"g_continuous_bar_daily"}}
    /\ view_exists = TRUE
    /\ g_continuous_bar_daily \in
          IF "g_continuous_bar_daily" \in tables
          THEN BarTables({SeriesList[1]}, {100}) ELSE {{}}
    /\ dim_session \in IF "dim_session" \in tables THEN Calendars ELSE {{}}
    /\ dim_instrument_metadata = {}
    /\ dim_roll_dates = {}
    /\ dim_canonical_series = {}
    /\ canonical_config = {}
    /\ quote_defects = {}
    /\ args = DefaultArgs
    /\ out = IdleOut

NextCal ==
    \/ \E d \in Dates : IngestBar(SoundBar(d, SeriesList[1], 100))
    \/ \E b \in g_continuous_bar_daily : DeleteBar(b)
    \/ \E dry_run \in BOOLEAN : sync_calendar(dry_run)
    \/ \E root \in Roots \cup {None} : detect_and_store_roll_dates(root)
    \/ run_diagnostics
    \/ \E window_days \in {NULL, 1, 3} : render_health_report(window_days)

SpecCal == InitCal /\ [][NextCal]_vars

-----------------------------------------------------------------------------
(* The roll detector's properties.                                         *)

\* The history of series cs that a run for `root` processes: its stored bars
\* that carry an instrument id, when the series belongs to the root.
History(cs, root) ==
    {b \in g_continuous_bar_daily :
        /\ b.contract_series = cs
        /\ b.underlying_instrument_id # NULL
        /\ (root = None \/ cs[1] = root)}

\* The pairs of a history that are adjacent in ascending trading_date order.
AdjacentPairs(H) ==
    {p \in H \X H :
        /\ p[1].trading_date < p[2].trading_date
        /\ ~ \E c \in H : p[1].trading_date < c.trading_date
                          /\ c.trading_date < p[2].trading_date}

Changes(H) ==
    {p \in AdjacentPairs(H) : p[1].underlying_instrument_id # p[2].underlying_instrument_id}

\* The rank a series identifier declares: FRONT is 0, RANK_1 is 1.
DeclaredRank(cs) == IF cs = SeriesList[1] THEN 0 ELSE 1

\* The event the claims expect for an adjacent pair.
ExpectedEvent(cs, p) ==
    [contract_series |-> cs, rank |-> DeclaredRank(cs), roll_date |-> p[2].trading_date,
     old_instrument_id |-> p[1].underlying_instrument_id,
     new_instrument_id |-> p[2].underlying_instrument_id]

EventsOf(roll_rows, cs) == {i \in DOMAIN roll_rows : roll_rows[i].contract_series = cs}

Detected == out.cmd = "detect-rolls"

\* C5: after a detect-rolls run, for each series the number of roll events it
\* detected equals the number of pairs of the series' bars, adjacent in ascending
\* trading_date order, whose instrument ids differ, and all of them carry one
\* rank; this holds for every order in which the rows were fetched, a date gap
\* without a change adds nothing, and a history of zero or one bar gives zero.
C5_RollCountIsAdjacentChanges ==
    Detected =>
        \A cs \in Series :
            /\ Cardinality(EventsOf(out.roll_rows, cs))
                  = Cardinality(Changes(History(cs, out.root)))
            /\ \A i, j \in EventsOf(out.roll_rows, cs) :
                  out.roll_rows[i].rank = out.roll_rows[j].rank
            /\ Cardinality(History(cs, out.root)) <= 1 => EventsOf(out.roll_rows, cs) = {}

\* A run that found two rolls in a history of three bars spanning the weekend gap.
C5_Witness ==
    /\ Detected
    /\ Len(out.roll_rows) = 2
    /\ \E cs \in Series : Cardinality(History(cs, out.root)) = 3

\* The three bars of the end-to-end example.
ExampleBars ==
    {SoundBar(2, SeriesList[1], 100), SoundBar(3, SeriesList[1], 100),
     SoundBar(6, SeriesList[1], 200)}

\* C9: every adjacent pair (d1, i1), (d2, i2) with i1 # i2 of a processed series
\* is detected as the event (series, its rank, roll_date d2, old i1, new i2);
\* the bars 2025-01-02 (100), 2025-01-03 (100), 2025-01-06 (200) of
\* ES_FRONT_CALENDAR_2D give exactly the event (rank 0, 2025-01-06, 100, 200).
C9_RollEventFields ==
    Detected =>
        /\ \A cs \in Series : \A p \in Changes(History(cs, out.root)) :
              \E i \in DOMAIN out.roll_rows : out.roll_rows[i] = ExpectedEvent(cs, p)
        /\ (g_continuous_bar_daily = ExampleBars /\ out.root \in {None, "ES"}) =>
              out.roll_rows = <<[contract_series |-> <<"ES", "FRONT", "CALENDAR", "2D">>,
                                 rank |-> 0, roll_date |-> 6,
                                 old_instrument_id |-> 100, new_instrument_id |-> 200]>>

\* detect-rolls has run on exactly the bars of the example.
C9_Witness ==
    /\ Detected
    /\ g_continuous_bar_daily = ExampleBars
    /\ out.root = "ES"
    /\ Len(out.roll_rows) = 1

\* The stored roll events without their enrichment columns.
Core(r) ==
    [contract_series |-> r.contract_series, rank |-> r.rank, roll_date |-> r.roll_date,
     old_instrument_id |-> r.old_instrument_id, new_instrument_id |-> r.new_instrument_id]

\* The events derivable from the stored bars of the series a run for root processes.
Derivable(root) ==
    UNION {{ExpectedEvent(cs, p) : p \in Changes(History(cs, root))} : cs \in Series}

StoredOfProcessed(root) ==
    {Core(r) : r \in {x \in dim_roll_dates : root = None \/ x.contract_series[1] = root}}

\* C6 (as claimed): after a detect-rolls run with metadata stored for every
\* instrument, the stored roll events of the processed series are exactly the
\* events derivable from the stored bars.
C6_FullReplace ==
    (Detected /\ \A id \in Instruments : \E m \in dim_instrument_metadata : m.instrument_id = id)
        => StoredOfProcessed(out.root) = Derivable(out.root)

\* C7: a detect-rolls run that directly follows a run with the same root (no
\* other command in between) leaves dim_roll_dates as the first run left it.
C7_DetectTwiceSame ==
    [][(out.cmd = "detect-rolls" /\ out'.cmd = "detect-rolls" /\ out'.root = out.root)
          => dim_roll_dates' = dim_roll_dates]_vars

\* A second consecutive run over a table that holds stored events.
C7_Witness ==
    /\ Detected
    /\ out.again
    /\ out.ret > 0
    /\ dim_roll_dates # {}

\* C8 (as claimed): a detect-rolls run stores every event it detected, whatever
\* metadata exists, and returns their count.
C8_StoresWithoutMetadata ==
    Detected =>
        /\ \A i \in DOMAIN out.roll_rows :
              \E r \in dim_roll_dates : Core(r) = out.roll_rows[i]
        /\ out.ret = Len(out.roll_rows)

-----------------------------------------------------------------------------
(* The report's and the run's properties.                                  *)

Finalized == out.cmd = "finalize"

SomeCheck(checks, P(_)) == \E i \in DOMAIN checks : P(checks[i])

\* The overall status the aggregation rule gives a list of results.
RuleStatus(checks) ==
    IF SomeCheck(checks, LAMBDA c : c.severity = "HARD" /\ c.status \in {"FAIL", "ERROR"})
    THEN "FAIL"
    ELSE IF SomeCheck(checks, LAMBDA c : c.status = "WARN"
                 \/ (c.status \in {"FAIL", "ERROR"} /\ c.severity = "WARN"))
    THEN "WARN"
    ELSE "PASS"

WithoutSkips(checks) == SelectSeq(checks, LAMBDA c : c.status # "SKIP")

\* C1: for any list of check results the report's overall_status is FAIL iff
\* some result is HARD with status FAIL or ERROR; otherwise WARN iff some
\* result has status WARN or is FAIL/ERROR at severity WARN; otherwise PASS;
\* and the list without its SKIP results gets the same overall status.
C1_OverallStatus ==
    Finalized =>
        /\ out.report.summary.overall_status = RuleStatus(checks_in)
        /\ _finalize_report(NULL, NULL, WithoutSkips(checks_in)).summary.overall_status
              = out.report.summary.overall_status

\* A HARD ERROR beside a WARN and a SKIP has been aggregated to FAIL.
C1_Witness ==
    /\ Finalized
    /\ SomeCheck(checks_in, LAMBDA c : c.severity = "HARD" /\ c.status = "ERROR")
    /\ SomeCheck(checks_in, LAMBDA c : c.status = "SKIP")
    /\ SomeCheck(checks_in, LAMBDA c : c.status = "WARN")
    /\ out.report.summary.overall_status = "FAIL"

Ran == out.cmd = "run-diagnostics"

\* C2: run-diagnostics returns 2 exactly when it ends with a report holding a
\* hard failure (overall_status FAIL), 1 exactly when an exception escapes the
\* run (as for start > end), and 0 otherwise (overall PASS or WARN).
C2_ExitCodes ==
    Ran =>
        /\ out.exit_code = 2 <=>
              (~ out.raised /\ RuleStatus(out.report.checks) = "FAIL"
                  /\ out.report.summary.overall_status = "FAIL")
        /\ out.exit_code = 1 <=> out.raised
        /\ out.exit_code = 0 <=>
              (~ out.raised /\ out.report.summary.overall_status \in {"PASS", "WARN"})
        /\ (db_exists /\ StartAfterEnd) => out.exit_code = 1

\* A run whose only issue is a warning has returned 0.
C2_Witness ==
    /\ Ran
    /\ ~ out.raised
    /\ out.report.summary.overall_status = "WARN"
    /\ out.report.summary.warnings > 0
    /\ out.exit_code = 0

\* Evaluating a validator's checks raises: one of its queries fails.
ValidatorRaises == OptionsQueryFails \/ FuturesQueryFails

\* C3: when evaluating one check raises, the run still ends with a report
\* and exit code 0 or 2, and the report lists that check with status ERROR
\* beside the other checks.  (Stated for a failing query of a validator.)
C3_CheckExceptionIsolated ==
    (Ran /\ db_exists /\ ~ StartAfterEnd /\ ~ ViewQueryFails /\ ValidatorRaises) =>
        /\ out.exit_code \in {0, 2}
        /\ ~ out.raised
        /\ SomeCheck(out.report.checks, LAMBDA c : c.status = "ERROR")
        /\ SomeCheck(out.report.checks,
                     LAMBDA c : c.check_id = <<"schema", "table", "dim_session">>)

HasSkip(id) ==
    SomeCheck(out.report.checks, LAMBDA c : c.check_id = id /\ c.status = "SKIP")

\* C4: whatever tables and view are absent, run-diagnostics ends without an
\* unhandled exception and the checks of each absent structure are reported
\* with status SKIP.  (Stated where a present view is queryable.)
C4_AbsentStructuresSkip ==
    (Ran /\ db_exists /\ ~ StartAfterEnd /\ ~ ViewQueryFails) =>
        /\ ~ out.raised
        /\ ~ _table_exists("dim_canonical_series") => HasSkip(<<"canonical", "mapping", "sync">>)
        /\ ~ (_table_exists("dim_session") /\ _table_exists("g_continuous_bar_daily"))
              => HasSkip(<<"calendar", "dim_session", "populated">>)
        /\ ~ _table_exists("g_continuous_bar_daily")
              => HasSkip(<<"continuous_daily", "validator">>)
        /\ ~ view_exists => HasSkip(<<"canonical", "view", "unique_root_date">>)
        /\ ~ _table_exists("f_quote_l1") => HasSkip(<<"options", "validator">>)
        /\ ~ _table_exists("f_fut_quote_l1") => HasSkip(<<"futures", "validator">>)
        /\ \A i \in DOMAIN DuplicateCandidates :
              ~ _table_exists(DuplicateCandidates[i])
                  => HasSkip(<<"integrity", "duplicates", DuplicateCandidates[i]>>)

-----------------------------------------------------------------------------
(* The calendar's properties.                                              *)

\* C10: right after a calendar sync that was not a dry run returns, every
\* trading_date of g_continuous_bar_daily is a trade_date of dim_session.
C10_CalendarCoversBars ==
    (out.cmd = "sync-calendar" /\ ~ out.dry_run /\ out.exit_code = 0) =>
        {b.trading_date : b \in g_continuous_bar_daily}
            \subseteq {r.trade_date : r \in dim_session}

\* A sync has inserted two dates beside a row the calendar already held.
C10_Witness ==
    /\ out.cmd = "sync-calendar"
    /\ ~ out.dry_run
    /\ out.ran
    /\ out.inserted = 2
    /\ \E r \in dim_session : r.is_holiday

\* C11: a calendar sync run directly after a sync that was no dry run counts
\* 0 new days and leaves dim_session as the first run left it.
C11_SecondSyncInsertsNothing ==
    [][(/\ out.cmd = "sync-calendar" /\ ~ out.dry_run /\ out.exit_code = 0
        /\ out'.cmd = "sync-calendar")
          => (out'.inserted = 0 /\ dim_session' = dim_session)]_vars

\* A sync has run right after a sync that inserted rows.
C11_Witness ==
    /\ out.cmd = "sync-calendar"
    /\ ~ out.dry_run
    /\ out.ran
    /\ out.prev_sync > 0
    /\ out.inserted = 0

\* C12: no step of any command deletes or alters a row of dim_session.
C12_CalendarAdditive == [][dim_session \subseteq dim_session']_vars

\* The last bar of a date the calendar holds has been deleted.
C12_Witness ==
    /\ out.cmd = "delete"
    /\ \E r \in dim_session : r.trade_date = out.trading_date
    /\ \A b \in g_continuous_bar_daily : b.trading_date # out.trading_date

-----------------------------------------------------------------------------
(* The calendar checks of run-diagnostics.                                 *)

\* The status a list of checks gives the check `id`; "ABSENT" when none.
StatusOf(checks, id) ==
    IF \E i \in DOMAIN checks : checks[i].check_id = id
    THEN checks[CHOOSE i \in DOMAIN checks : checks[i].check_id = id].status
    ELSE "ABSENT"

SeverityOf(checks, id) ==
    checks[CHOOSE i \in DOMAIN checks : checks[i].check_id = id].severity

BarDates == {b.trading_date : b \in g_continuous_bar_daily}
SessionDates == {r.trade_date : r \in dim_session}

\* The calendar is empty or ends before the last stored trading_date.
CalendarBehind ==
    BarDates # {} /\ (SessionDates = {} \/ \A d \in SessionDates : \E e \in BarDates : d < e)

CalendarTables == _table_exists("dim_session") /\ _table_exists("g_continuous_bar_daily")

Fresh == <<"calendar", "dim_session", "fresh">>
Populated == <<"calendar", "dim_session", "populated">>

\* C13: with both tables in place, the freshness check is HARD, FAIL exactly
\* when bars are stored and the calendar is empty or its maximum is before
\* the maximum stored trading_date, and PASS when bars are stored and the
\* calendar's maximum is at or after it.
C13_FreshnessRule ==
    (Ran /\ ~ out.raised /\ db_exists /\ CalendarTables) =>
        /\ StatusOf(out.report.checks, Fresh) = "FAIL" <=> CalendarBehind
        /\ (BarDates # {} /\ ~ CalendarBehind) => StatusOf(out.report.checks, Fresh) = "PASS"
        /\ StatusOf(out.report.checks, Fresh) # "ABSENT"
              => SeverityOf(out.report.checks, Fresh) = "HARD"

\* A calendar that holds days but ends before the last bar has failed the check.
C13_Witness ==
    /\ Ran
    /\ ~ out.raised
    /\ SessionDates # {}
    /\ CalendarBehind
    /\ StatusOf(out.report.checks, Fresh) = "FAIL"

\* C14: run-diagnostics on stored bars with an empty calendar reports a HARD
\* calendar failure, overall FAIL and exit code 2; run-diagnostics directly
\* after a calendar sync that ran reports populated and fresh as PASS.
C14_SyncBeforeDiagnostics ==
    /\ []((Ran /\ db_exists /\ CalendarTables /\ BarDates # {} /\ SessionDates = {}) =>
            /\ ~ out.raised
            /\ StatusOf(out.report.checks, Populated) = "FAIL"
            /\ SeverityOf(out.report.checks, Populated) = "HARD"
            /\ out.report.summary.overall_status = "FAIL"
            /\ out.exit_code = 2)
    /\ [][(/\ out.cmd = "sync-calendar" /\ ~ out.dry_run /\ out.ran
           /\ out'.cmd = "run-diagnostics")
             => (/\ ~ out'.raised
                 /\ StatusOf(out'.report.checks, Populated) = "PASS"
                 /\ StatusOf(out'.report.checks, Fresh) = "PASS")]_vars

\* run-diagnostics has run right after the sync that filled an empty calendar.
C14_Witness ==
    /\ Ran
    /\ out.prev_sync > 0
    /\ out.prev_sync = Cardinality(dim_session)
    /\ StatusOf(out.report.checks, Populated) = "PASS"
    /\ StatusOf(out.report.checks, Fresh) = "PASS"

-----------------------------------------------------------------------------
(* The canonical mapping's properties.                                     *)

\* The roots whose configured and stored contract_series or optional flag differ.
DriftedRoots ==
    {root \in RootsOf(canonical_config) \cap RootsOf(dim_canonical_series) :
        \/ RowOf(canonical_config, root).contract_series
              # RowOf(dim_canonical_series, root).contract_series
        \/ RowOf(canonical_config, root).optional
              # RowOf(dim_canonical_series, root).optional}

\* C15: when config and database hold the same roots, the diff has no
\* missing_in_db and no extra_in_db, and its mismatches are exactly the roots
\* whose contract_series or optional flag differs: none when all rows are
\* equal, that one root when one field of one root differs.
C15_DiffIsExact ==
    (out.cmd = "diff" /\ RootsOf(canonical_config) = RootsOf(dim_canonical_series)) =>
        /\ out.diff.missing_in_db = {}
        /\ out.diff.extra_in_db = {}
        /\ out.diff.mismatches = DriftedRoots
        /\ canonical_config = dim_canonical_series => out.diff.mismatches = {}
        /\ DriftedRoots = {} => out.diff.mismatches = {}

\* Two roots on both sides; one root differs, in its optional flag alone.
C15_Witness ==
    /\ out.cmd = "diff"
    /\ Cardinality(RootsOf(canonical_config)) = 2
    /\ RootsOf(canonical_config) = RootsOf(dim_canonical_series)
    /\ \E root \in RootsOf(canonical_config) :
          /\ DriftedRoots = {root}
          /\ RowOf(canonical_config, root).contract_series
                = RowOf(dim_canonical_series, root).contract_series
          /\ out.diff.mismatches = {root}

\* C16: when dim_canonical_series differs from the configured mapping, the
\* check canonical.mapping.sync is FAIL at severity HARD, the overall status
\* is FAIL and the exit code is 2.
C16_DriftIsHardFailure ==
    (Ran /\ ~ out.raised /\ db_exists /\ _table_exists("dim_canonical_series")
         /\ canonical_config # dim_canonical_series) =>
        /\ StatusOf(out.report.checks, <<"canonical", "mapping", "sync">>) = "FAIL"
        /\ SeverityOf(out.report.checks, <<"canonical", "mapping", "sync">>) = "HARD"
        /\ out.report.summary.overall_status = "FAIL"
        /\ out.exit_code = 2

\* Drift is the only failure of a run, which has returned 2.
C16_Witness ==
    /\ Ran
    /\ ~ out.raised
    /\ canonical_config # dim_canonical_series
    /\ out.report.summary.hard_failures = 1
    /\ StatusOf(out.report.checks, <<"canonical", "mapping", "sync">>) = "FAIL"
    /\ out.exit_code = 2

-----------------------------------------------------------------------------
(* The recent window's properties.                                         *)

ViewDates == {v.trading_date : v \in v_canonical_continuous_bar_daily}

\* C17: without --start and --end the window ends at the maximum
\* trading_date of the canonical view and starts window_days - 1 days earlier.
C17_WindowSpansNDays ==
    (Ran /\ ~ out.raised /\ db_exists /\ args.start = NULL /\ args.end = NULL
         /\ view_exists /\ ViewDates # {}) =>
        /\ out.report.meta.window_end \in ViewDates
        /\ \A d \in ViewDates : d <= out.report.meta.window_end
        /\ out.report.meta.window_start
              = out.report.meta.window_end - (args.window_days - 1)

Presence == <<"canonical", "view", "presence_recent_window">>

\* The required roots without a row of the view in the reported window.
RequiredRootsMissing ==
    {r.root : r \in {x \in dim_canonical_series :
        /\ ~ x.optional
        /\ \A v \in v_canonical_continuous_bar_daily :
              v.root = x.root =>
                 (v.trading_date < out.report.meta.window_start
                    \/ v.trading_date > out.report.meta.window_end)}}

NoHardFailure ==
    \A i \in DOMAIN out.report.checks :
        ~ (out.report.checks[i].severity = "HARD"
             /\ out.report.checks[i].status \in {"FAIL", "ERROR"})

\* C18: the presence check has severity WARN; it is WARN exactly when some
\* root that is not optional has no row of the view in [start, end] and PASS
\* otherwise; and when no check is a hard failure, a WARN presence check
\* leaves the overall status at WARN and the exit code at 0.
C18_PresenceIsWarnOnly ==
    (Ran /\ ~ out.raised /\ db_exists
         /\ StatusOf(out.report.checks, Presence) # "ABSENT") =>
        /\ SeverityOf(out.report.checks, Presence) = "WARN"
        /\ StatusOf(out.report.checks, Presence)
              = IF RequiredRootsMissing # {} THEN "WARN" ELSE "PASS"
        /\ (StatusOf(out.report.checks, Presence) = "WARN" /\ NoHardFailure) =>
              (out.report.summary.overall_status = "WARN" /\ out.exit_code = 0)

\* A required root has bars, none in the window, beside an optional root
\* without any: the check is WARN and the run has returned 0.
C18_Witness ==
    /\ Ran
    /\ ~ out.raised
    /\ StatusOf(out.report.checks, Presence) = "WARN"
    /\ ViewDates # {}
    /\ \E x \in dim_canonical_series :
          x.optional /\ \A v \in v_canonical_continuous_bar_daily : v.root # x.root
    /\ out.report.summary.overall_status = "WARN"
    /\ out.exit_code = 0

-----------------------------------------------------------------------------
(* The symbol parser's properties.                                         *)

Parsed == out.cmd = "parse"

\* The parts of a symbol that ends with k digits after a letter.
SymbolRoot(sym, k) == SubSeq(sym, 1, Len(sym) - k - 1)
SymbolCode(sym, k) == sym[Len(sym) - k]
SymbolYear(sym, k) == SubSeq(sym, Len(sym) - k + 1, Len(sym))

\* The symbol is a root, a month code and a year code of k digits.
HasYearDigits(sym, k) ==
    /\ Len(sym) >= k + 2
    /\ int_returns(SymbolYear(sym, k))
    /\ ~ int_returns(<<SymbolCode(sym, k)>>)

\* The month 1..12 of a month code.
MonthOfCode(c) ==
    CHOOSE m \in 1..12 :
        <<"F", "G", "H", "J", "K", "M", "N", "Q", "U", "V", "X", "Z">>[m] = c

\* C19: a symbol with a one-digit year code is parsed to the year of the
\* decade 2020-2029 with that digit; "ESH6" gives root ES, month 3, year 2026.
C19_OneDigitYear ==
    (Parsed /\ HasYearDigits(args.native_symbol, 1)
            /\ Len(SymbolRoot(args.native_symbol, 1)) <= MaxRootLen) =>
        /\ out.result.matched
        /\ out.result.year = 2020 + int(SymbolYear(args.native_symbol, 1))
        /\ args.native_symbol = <<"E", "S", "H", "6">> =>
              (out.result.root = <<"E", "S">> /\ out.result.month = 3
                  /\ out.result.year = 2026)

\* What the claim says of a symbol with a two-digit year code.
TwoDigitYearRule ==
    LET sym == args.native_symbol
        yy == int(SymbolYear(sym, 2))
    IN  /\ out.result.matched
        /\ out.result.root = SymbolRoot(sym, 2)
        /\ out.result.month = MonthOfCode(SymbolCode(sym, 2))
        /\ out.result.year = IF yy <= 50 THEN 2000 + yy ELSE 1900 + yy
        /\ sym = <<"S", "R", "3", "Z", "2", "5">> =>
              (out.result.root = <<"S", "R", "3">> /\ out.result.month = 12
                  /\ out.result.year = 2025)

\* C20 as stated: every symbol root + month code + two-digit year is parsed
\* to its root, the month of the code and the year 2000+yy or 1900+yy.
C20_TwoDigitYearAnyRoot ==
    (Parsed /\ HasYearDigits(args.native_symbol, 2)) => TwoDigitYearRule

\* C20, amended: the same for the symbols whose root has at most 4 characters.
C20_TwoDigitYear ==
    (Parsed /\ HasYearDigits(args.native_symbol, 2)
            /\ Len(SymbolRoot(args.native_symbol, 2)) <= MaxRootLen) => TwoDigitYearRule

\* "SR3Z25" has been parsed.
C20_Witness ==
    /\ Parsed
    /\ args.native_symbol = <<"S", "R", "3", "Z", "2", "5">>
    /\ out.result.matched
    /\ out.result.year = 2025

\* The string is a root of 1 to 4 characters, a month code (in either case,
\* as the parser reads it) and a year of decimal digits only.
OfTheForm(sym) ==
    \E n \in 1..MaxRootLen :
        /\ Len(sym) >= n + 2
        /\ upper(sym[n + 1]) \in DOMAIN MONTH_CODES
        /\ int_returns(SubSeq(sym, n + 2, Len(sym)))

\* C21: for every string that is not a root of 1 to 4 characters, a month
\* code and an all-digit year, parse returns null and does not raise.
C21_NonMatchingYieldsNull ==
    (Parsed /\ ~ OfTheForm(args.native_symbol)) =>
        (~ out.result.raised /\ ~ out.result.matched)

-----------------------------------------------------------------------------
(* The IMM date's properties.                                              *)

\* C22: for every month and year, calculate_imm_date gives a Wednesday of
\* that month and year whose day of month is between 15 and 21, the third
\* Wednesday; for March 2026 it gives 2026-03-18.
C22_ThirdWednesday ==
    out.cmd = "imm" =>
        /\ weekday(out.result) = 2
        /\ out.result.month = args.month
        /\ out.result.year = args.year
        /\ out.result.day \in 15..21
        /\ (args.month = 3 /\ args.year = 2026) =>
              out.result = [year |-> 2026, month |-> 3, day |-> 18]

\* The date of a month that starts on a Wednesday has been computed: the 15th.
C22_Witness ==
    /\ out.cmd = "imm"
    /\ weekday([year |-> args.year, month |-> args.month, day |-> 1]) = 2
    /\ out.result.day = 15

-----------------------------------------------------------------------------
(* The series identifier's properties.                                     *)

\* C23: for every root, roll strategy and rank >= 0, the identifier is
\* root, FRONT or RANK_N, and the normalized strategy, and the rank the roll
\* detector extracts from it is the rank it was made from.
C23_RankRecoverable ==
    out.cmd = "make-series" =>
        /\ out.id = make_contract_series(args.root, args.roll_strategy, args.rank)
        /\ out.id[1] = args.root
        /\ out.rank = args.rank

\* The identifier SR3_RANK_2_CALENDAR_2D has been made and read back.
C23_Witness ==
    /\ out.cmd = "make-series"
    /\ out.id = <<"SR3", "RANK", "2", "CALENDAR", "2D">>
    /\ out.rank = 2

-----------------------------------------------------------------------------
(* The daily-bar validator's properties.                                   *)

\* The validator's check of the daily bars named by `slug`.
DailyCheck(slug) ==
    out.report.checks[CHOOSE i \in DOMAIN out.report.checks :
        out.report.checks[i].check_id = <<"continuous_daily", "validator", slug>>]

\* The stored bars whose column x is below their column y.
BarsBelow(x, y) ==
    {b \in g_continuous_bar_daily : b[x] # NULL /\ b[y] # NULL /\ b[x] < b[y]}

\* The five OHLC sanity checks: slug, lower column, upper column.
OhlcRelations ==
    { <<"high_low", "high", "low">>, <<"high_open", "high", "open">>,
      <<"high_close", "high", "close">>, <<"low_open", "open", "low">>,
      <<"low_close", "close", "low">> }

\* C24: each OHLC sanity check reports as its violation count the number of
\* stored bars that violate its relation, and is FAIL with severity HARD
\* when that number is not 0 and PASS otherwise; a table with exactly one
\* row whose high is below its low gives the high-below-low check count 1.
C24_OhlcCountsViolations ==
    (Ran /\ ~ out.raised /\ db_exists /\ _table_exists("g_continuous_bar_daily")) =>
        /\ \A r \in OhlcRelations :
              /\ DailyCheck(r[1]).violations = Cardinality(BarsBelow(r[2], r[3]))
              /\ DailyCheck(r[1]).severity = "HARD"
              /\ DailyCheck(r[1]).status
                    = IF BarsBelow(r[2], r[3]) = {} THEN "PASS" ELSE "FAIL"
        /\ Cardinality(BarsBelow("high", "low")) = 1 =>
              (DailyCheck("high_low").violations = 1
                  /\ DailyCheck("high_low").status = "FAIL")

\* Of two stored bars exactly one has its high below its low, and the check
\* has counted 1.
C24_Witness ==
    /\ Ran
    /\ ~ out.raised
    /\ Cardinality(g_continuous_bar_daily) = 2
    /\ Cardinality(BarsBelow("high", "low")) = 1
    /\ DailyCheck("high_low").violations = 1
    /\ DailyCheck("high_low").status = "FAIL"
    /\ DailyCheck("high_low").severity = "HARD"

-----------------------------------------------------------------------------
(* The run's output.                                                       *)

\* C25: every run-diagnostics run that ends with exit code 0 or 2 has
\* printed its report, which lists every executed check and the summary, and
\* has written the JSON artifact when --json-out was given; also the run
\* that fails because the database file does not exist.
C25_ReportAlwaysEmitted ==
    (Ran /\ out.exit_code \in {0, 2}) =>
        /\ out.printed
        /\ args.json_out => out.json_written
        /\ out.report.summary.total_checks = Len(out.report.checks)

\* C26: run-diagnostics and render-health-report change no stored table,
\* whatever their arguments and whatever they return.
C26_ReportsAreReadOnly ==
    [][out'.cmd \in {"run-diagnostics", "render-health-report"} =>
          UNCHANGED <<db_exists, tables, view_exists, g_continuous_bar_daily, dim_session,
                      dim_instrument_metadata, dim_roll_dates, dim_canonical_series>>]_vars

\* run-diagnostics has failed on an empty calendar beside stored bars, and
\* the calendar is still empty.
C26_Witness ==
    /\ Ran
    /\ out.exit_code = 2
    /\ g_continuous_bar_daily # {}
    /\ dim_session = {}
    /\ StatusOf(out.report.checks, Populated) = "FAIL"

-----------------------------------------------------------------------------
(* The reconciliation's completeness.                                      *)

\* C27: the reconciliation reports a mismatch for every root of config and
\* database whose contract_series, optional flag or description differ, so
\* a reconciliation without findings means that the database holds exactly
\* the configured rows.
C27_DiffCoversEveryField ==
    out.cmd = "diff" =>
        /\ \A root \in RootsOf(canonical_config) \cap RootsOf(dim_canonical_series) :
              RowOf(canonical_config, root) # RowOf(dim_canonical_series, root)
                  => root \in out.diff.mismatches
        /\ (out.diff.missing_in_db = {} /\ out.diff.extra_in_db = {}
                /\ out.diff.mismatches = {}) => canonical_config = dim_canonical_series

-----------------------------------------------------------------------------
(* The summary counters.                                                   *)

\* The number of the four counters' rules that count the check c.
TimesCounted(c) ==
    (IF c.status = "PASS" THEN 1 ELSE 0)
      + (IF c.status = "SKIP" THEN 1 ELSE 0)
      + (IF c.status \in {"FAIL", "ERROR"} /\ c.severity = "HARD" THEN 1 ELSE 0)
      + (IF c.status = "WARN" \/ (c.status \in {"FAIL", "ERROR"} /\ c.severity = "WARN")
         THEN 1 ELSE 0)

CountersSum ==
    out.report.summary.passed + out.report.summary.warnings
        + out.report.summary.hard_failures + out.report.summary.skipped

\* No result of the list is FAIL or ERROR at severity INFO.
NoInfoFailure ==
    \A i \in DOMAIN checks_in :
        ~ (checks_in[i].status \in {"FAIL", "ERROR"} /\ checks_in[i].severity = "INFO")

\* C28 as stated: for any list of results the four counters add up to
\* total_checks, each check being counted exactly once.
C28_CountersPartitionAnyList ==
    Finalized =>
        /\ CountersSum = out.report.summary.total_checks
        /\ \A i \in DOMAIN checks_in : TimesCounted(checks_in[i]) = 1

\* C28, amended: no check is counted twice; a check is counted in none of
\* the counters exactly when it is FAIL or ERROR at severity INFO; so the
\* counters add up to total_checks for every list without such a result.
C28_CountersPartition ==
    Finalized =>
        /\ out.report.summary.total_checks = Len(checks_in)
        /\ \A i \in DOMAIN checks_in :
              /\ TimesCounted(checks_in[i]) <= 1
              /\ TimesCounted(checks_in[i]) = 0 <=>
                    (checks_in[i].status \in {"FAIL", "ERROR"}
                        /\ checks_in[i].severity = "INFO")
        /\ NoInfoFailure => CountersSum = out.report.summary.total_checks
        /\ ~ NoInfoFailure => CountersSum < out.report.summary.total_checks

\* A list of a PASS, a SKIP at severity HARD and a FAIL at severity WARN has
\* been counted: one passed, one skipped, one warning.
C28_Witness ==
    /\ Finalized
    /\ Len(checks_in) = 3
    /\ SomeCheck(checks_in, LAMBDA c : c.status = "PASS")
    /\ SomeCheck(checks_in, LAMBDA c : c.status = "SKIP" /\ c.severity = "HARD")
    /\ SomeCheck(checks_in, LAMBDA c : c.status = "FAIL" /\ c.severity = "WARN")
    /\ out.report.summary.passed = 1
    /\ out.report.summary.skipped = 1
    /\ out.report.summary.warnings = 1
    /\ out.report.summary.hard_failures = 0

-----------------------------------------------------------------------------
(* Absent structures and the run's result.                                 *)

RequiredTables == {"dim_session", "dim_canonical_series", "g_continuous_bar_daily"}

\* A required table or the canonical view is absent.
StructureAbsent == ~ (RequiredTables \subseteq tables) \/ ~ view_exists

\* C29: when the database file exists and a required table or the canonical
\* view is absent, run-diagnostics ends with overall_status FAIL and exit
\* code 2, and no SKIP result is counted as a hard failure.  (Stated for a
\* window that is not inverted and where a present view is queryable.)
C29_AbsentStructureFails ==
    (Ran /\ db_exists /\ StructureAbsent /\ ~ StartAfterEnd /\ ~ ViewQueryFails) =>
        /\ out.exit_code = 2
        /\ out.report.summary.overall_status = "FAIL"
        /\ out.report.summary.hard_failures
              = Cardinality({i \in DOMAIN out.report.checks :
                    /\ out.report.checks[i].severity = "HARD"
                    /\ out.report.checks[i].status \in {"FAIL", "ERROR"}})

-----------------------------------------------------------------------------
(* Days missing from the calendar.                                         *)

\* The stored trading dates the calendar does not hold: what a sync inserts.
MissingDays == BarDates \ SessionDates

CalendarFailed ==
    \/ StatusOf(out.report.checks, Populated) = "FAIL"
    \/ StatusOf(out.report.checks, Fresh) = "FAIL"

\* C30 as stated: whenever a stored trading_date is absent from the
\* calendar, run-diagnostics reports FAIL on the populated check or on the
\* freshness check.
C30_MissingDayFails ==
    (Ran /\ ~ out.raised /\ db_exists /\ CalendarTables /\ MissingDays # {}) =>
        CalendarFailed

\* C30, amended: run-diagnostics reports FAIL on the populated check or on
\* the freshness check exactly when a stored trading_date is later than
\* every day of the calendar (an empty calendar included); a missing day
\* that is not later than the calendar's last day leaves both checks PASS.
C30_LateDayFails ==
    (Ran /\ ~ out.raised /\ db_exists /\ CalendarTables) =>
        /\ CalendarFailed <=>
              \E d \in MissingDays : \A s \in SessionDates : s < d
        /\ (MissingDays # {} /\ \A d \in MissingDays : \E s \in SessionDates : d < s) =>
              (StatusOf(out.report.checks, Populated) = "PASS"
                  /\ StatusOf(out.report.checks, Fresh) = "PASS")

\* A calendar that holds days lacks a later stored trading_date, and the
\* freshness check has failed while the populated check has passed.
C30_Witness ==
    /\ Ran
    /\ ~ out.raised
    /\ SessionDates # {}
    /\ \E d \in MissingDays : \A s \in SessionDates : s < d
    /\ StatusOf(out.report.checks, Populated) = "PASS"
    /\ StatusOf(out.report.checks, Fresh) = "FAIL"
    /\ out.exit_code = 2

====
